---- MODULE Spec2Model ----
(***************************************************************************)
(* Model of the SRP helper functions of src/aws_srp.rs (hex codec, padding, *)
(* random exponent, HKDF, scrambling parameter u).                          *)
(*                                                                          *)
(* Representation.                                                          *)
(*  - A Rust String is a sequence of one-character strings.                 *)
(*  - A u128 / BigUint value is its canonical big-endian sequence of        *)
(*    nibbles (0..15, no leading zero nibble, zero is <<>>).  A u128 is a   *)
(*    value of at most U128_BITS \div 4 nibbles, so the width of the type   *)
(*    is kept exactly.                                                      *)
(*  - A byte slice is a sequence of 0..255.                                 *)
(*  - Result<T, E> is [ok |-> TRUE, val |-> v] or [ok |-> FALSE, err |-> e].*)
(*  - SHA-256 is an oracle: the digest of a call is any element of          *)
(*    DigestSamples.  HMAC-SHA256 is a symbolic term over its key and       *)
(*    message.                                                              *)
(***************************************************************************)
EXTENDS Integers, Sequences, FiniteSets, TLC

VARIABLES op, arg, res

vars == <<op, arg, res>>

(***************************************************************************)
(* Bounds of the explored inputs.                                           *)
(***************************************************************************)
MaxLen == 3
MaxHead == 2
MaxNibbles == 3
MaxBytes == 2

(***************************************************************************)
(* Program constants.                                                       *)
(***************************************************************************)
U128_BITS == 128
OKM_LEN == 16
SHA256_LEN == 32

N_HEX ==
  <<
    "F","F","F","F","F","F","F","F","F","F","F","F","F","F","F","F","C","9","0","F","D","A","A","2",
    "2","1","6","8","C","2","3","4","C","4","C","6","6","2","8","B","8","0","D","C","1","C","D","1",
    "2","9","0","2","4","E","0","8","8","A","6","7","C","C","7","4","0","2","0","B","B","E","A","6",
    "3","B","1","3","9","B","2","2","5","1","4","A","0","8","7","9","8","E","3","4","0","4","D","D",
    "E","F","9","5","1","9","B","3","C","D","3","A","4","3","1","B","3","0","2","B","0","A","6","D",
    "F","2","5","F","1","4","3","7","4","F","E","1","3","5","6","D","6","D","5","1","C","2","4","5",
    "E","4","8","5","B","5","7","6","6","2","5","E","7","E","C","6","F","4","4","C","4","2","E","9",
    "A","6","3","7","E","D","6","B","0","B","F","F","5","C","B","6","F","4","0","6","B","7","E","D",
    "E","E","3","8","6","B","F","B","5","A","8","9","9","F","A","5","A","E","9","F","2","4","1","1",
    "7","C","4","B","1","F","E","6","4","9","2","8","6","6","5","1","E","C","E","4","5","B","3","D",
    "C","2","0","0","7","C","B","8","A","1","6","3","B","F","0","5","9","8","D","A","4","8","3","6",
    "1","C","5","5","D","3","9","A","6","9","1","6","3","F","A","8","F","D","2","4","C","F","5","F",
    "8","3","6","5","5","D","2","3","D","C","A","3","A","D","9","6","1","C","6","2","F","3","5","6",
    "2","0","8","5","5","2","B","B","9","E","D","5","2","9","0","7","7","0","9","6","9","6","6","D",
    "6","7","0","C","3","5","4","E","4","A","B","C","9","8","0","4","F","1","7","4","6","C","0","8",
    "C","A","1","8","2","1","7","C","3","2","9","0","5","E","4","6","2","E","3","6","C","E","3","B",
    "E","3","9","E","7","7","2","C","1","8","0","E","8","6","0","3","9","B","2","7","8","3","A","2",
    "E","C","0","7","A","2","8","F","B","5","C","5","5","D","F","0","6","F","4","C","5","2","C","9",
    "D","E","2","B","C","B","F","6","9","5","5","8","1","7","1","8","3","9","9","5","4","9","7","C",
    "E","A","9","5","6","A","E","5","1","5","D","2","2","6","1","8","9","8","F","A","0","5","1","0",
    "1","5","7","2","8","E","5","A","8","A","A","A","C","4","2","D","A","D","3","3","1","7","0","D",
    "0","4","5","0","7","A","3","3","A","8","5","5","2","1","A","B","D","F","1","C","B","A","6","4",
    "E","C","F","B","8","5","0","4","5","8","D","B","E","F","0","A","8","A","E","A","7","1","5","7",
    "5","D","0","6","0","C","7","D","B","3","9","7","0","F","8","5","A","6","E","1","E","4","C","7",
    "A","B","F","5","A","E","8","C","D","B","0","9","3","3","D","7","1","E","8","C","9","4","E","0",
    "4","A","2","5","6","1","9","D","C","E","E","3","D","2","2","6","1","A","D","2","E","E","6","B",
    "F","1","2","F","F","A","0","6","D","9","8","A","0","8","6","4","D","8","7","6","0","2","7","3",
    "3","E","C","8","6","A","6","4","5","2","1","F","2","B","1","8","1","7","7","B","2","0","0","C",
    "B","B","E","1","1","7","5","7","7","A","6","1","5","D","6","C","7","7","0","9","8","8","C","0",
    "B","A","D","9","4","6","E","2","0","8","E","2","4","F","A","0","7","4","E","5","A","B","3","1",
    "4","3","D","B","5","B","F","C","E","0","F","D","1","0","8","E","4","B","8","2","D","1","2","0",
    "A","9","3","A","D","2","C","A","F","F","F","F","F","F","F","F","F","F","F","F","F","F","F","F"
  >>

INFO_BITS == <<67,97,108,100,101,114,97,32,68,101,114,105,118,101,100,32,75,101,121>>

(***************************************************************************)
(* Characters and digits.                                                   *)
(***************************************************************************)
UPPER_HEX == <<"0","1","2","3","4","5","6","7","8","9","A","B","C","D","E","F">>

LOWER_HEX == <<"0","1","2","3","4","5","6","7","8","9","a","b","c","d","e","f">>

\* char::to_digit(16): the digit's value, or -1 for None.
DIGIT_VALUE ==
  [c \in {UPPER_HEX[i] : i \in 1..16} \cup {LOWER_HEX[i] : i \in 1..16} |->
     IF \E i \in 1..16 : UPPER_HEX[i] = c
     THEN (CHOOSE i \in 1..16 : UPPER_HEX[i] = c) - 1
     ELSE (CHOOSE i \in 1..16 : LOWER_HEX[i] = c) - 1]

to_digit(c) == IF c \in DOMAIN DIGIT_VALUE THEN DIGIT_VALUE[c] ELSE -1

Ok(v) == [ok |-> TRUE, val |-> v]

Err(e) == [ok |-> FALSE, err |-> e]

\* The number of nibbles of a u128.
U128_NIBBLES == U128_BITS \div 4

\* u128::MAX
U128_MAX == [i \in 1..U128_NIBBLES |-> 15]

(***************************************************************************)
(* hex_to_long: u128::from_str_radix(hex_str, 16).  An empty string is an   *)
(* error, a lone sign is an error, one leading "+" is accepted (an unsigned *)
(* type does not accept "-"), every other character must be a digit of the  *)
(* radix, and the value must fit the type: result * 16 + digit is checked.  *)
(***************************************************************************)
RECURSIVE accumulate_u128(_, _)
accumulate_u128(digits, result) ==
  IF digits = <<>> THEN Ok(result)
  ELSE LET x == to_digit(Head(digits))
           next == IF result = <<>> /\ x = 0 THEN <<>> ELSE Append(result, x)
       IN  IF x = -1 THEN Err("InvalidDigit")
           ELSE IF Len(next) > U128_NIBBLES THEN Err("PosOverflow")
           ELSE accumulate_u128(Tail(digits), next)

hex_to_long(hex_str) ==
  IF hex_str = <<>> THEN Err("Empty")
  ELSE IF hex_str = <<"+">> \/ hex_str = <<"-">> THEN Err("InvalidDigit")
  ELSE accumulate_u128(IF Head(hex_str) = "+" THEN Tail(hex_str) ELSE hex_str, <<>>)

(***************************************************************************)
(* long_to_hex: format!("{:X}", long): uppercase digits, no padding, "0"    *)
(* for zero.                                                                *)
(***************************************************************************)
\* long_to_hex with the lowercase format {:x}.
long_to_hex_lower(long) ==
  IF long = <<>> THEN <<"0">>
  ELSE [i \in 1..Len(long) |-> LOWER_HEX[long[i] + 1]]

\* long_to_hex of the value narrowed to its low byte (long as u8).
long_to_hex_u8(long) ==
  IF long = <<>> THEN <<"0">>
  ELSE LET low == SubSeq(long, IF Len(long) > 2 THEN Len(long) - 1 ELSE 1, Len(long))
           cut == IF Len(low) = 2 /\ low[1] = 0 THEN Tail(low) ELSE low
       IN  IF cut = <<0>> THEN <<"0">> ELSE [i \in 1..Len(cut) |-> UPPER_HEX[cut[i] + 1]]

long_to_hex(long) ==
  IF long = <<>> THEN <<"0">>
  ELSE [i \in 1..Len(long) |-> UPPER_HEX[long[i] + 1]]

(***************************************************************************)
(* pad_hex.  StringOrLong is [tag |-> "Long", val |-> n] or                 *)
(* [tag |-> "String", val |-> s].                                           *)
(***************************************************************************)
HIGH_DIGITS == {"8","9","A","B","C","D","E","F","a","b","c","d","e","f"}

Long(n) == [tag |-> "Long", val |-> n]

String(s) == [tag |-> "String", val |-> s]

\* pad_hex whose digit test leaves out the lowercase a-f.
pad_hex_upper_only(val) ==
  LET hash_str == IF val.tag = "Long" THEN long_to_hex(val.val) ELSE val.val
  IN  IF Len(hash_str) % 2 = 1 THEN <<"0">> \o hash_str
      ELSE IF hash_str # <<>> /\ Head(hash_str) \in {"8","9","A","B","C","D","E","F"}
           THEN <<"0","0">> \o hash_str
           ELSE hash_str

\* pad_hex with the prefixes of its two branches exchanged.
pad_hex_swapped(val) ==
  LET hash_str == IF val.tag = "Long" THEN long_to_hex(val.val) ELSE val.val
  IN  IF Len(hash_str) % 2 = 1 THEN <<"0","0">> \o hash_str
      ELSE IF hash_str # <<>> /\ Head(hash_str) \in HIGH_DIGITS
           THEN <<"0">> \o hash_str
           ELSE hash_str

\* pad_hex without the odd-length branch.
pad_hex_no_odd(val) ==
  LET hash_str == IF val.tag = "Long" THEN long_to_hex(val.val) ELSE val.val
  IN  IF hash_str # <<>> /\ Head(hash_str) \in HIGH_DIGITS
      THEN <<"0","0">> \o hash_str
      ELSE hash_str

pad_hex(val) ==
  LET hash_str == IF val.tag = "Long" THEN long_to_hex(val.val) ELSE val.val
  IN  IF Len(hash_str) % 2 = 1 THEN <<"0">> \o hash_str
      ELSE IF hash_str # <<>> /\ Head(hash_str) \in HIGH_DIGITS
           THEN <<"0","0">> \o hash_str
           ELSE hash_str

(***************************************************************************)
(* hex::decode and hex::encode_upper.                                       *)
(***************************************************************************)
decode(hex_str) ==
  IF Len(hex_str) % 2 # 0 THEN Err("OddLength")
  ELSE IF \E i \in 1..Len(hex_str) : to_digit(hex_str[i]) = -1
       THEN Err("InvalidHexCharacter")
       ELSE Ok([i \in 1..(Len(hex_str) \div 2) |->
                  16 * to_digit(hex_str[2 * i - 1]) + to_digit(hex_str[2 * i])])

encode_upper(bytes) ==
  [i \in 1..(2 * Len(bytes)) |->
     IF i % 2 = 1 THEN UPPER_HEX[(bytes[(i + 1) \div 2] \div 16) + 1]
                  ELSE UPPER_HEX[(bytes[i \div 2] % 16) + 1]]

(***************************************************************************)
(* hash_sha256 and hex_hash.  digest is the SHA-256 oracle's answer for     *)
(* buf: the 32 bytes context.finish() returns.                              *)
(***************************************************************************)
hash_sha256(buf, digest) == encode_upper(digest)

hex_hash(hex_str, digest) ==
  LET hex_val == decode(hex_str)
  IN  IF ~hex_val.ok THEN hex_val ELSE Ok(hash_sha256(hex_val.val, digest))

(***************************************************************************)
(* get_random: rand::thread_rng().gen::<u128>(): drawn is the generator's   *)
(* output, any u128; num_bytes is not read.                                 *)
(***************************************************************************)
get_random(num_bytes, drawn) == drawn

(***************************************************************************)
(* compute_hkdf.  HMAC-SHA256 is a symbolic term.  Hkdf::new(Some(salt),    *)
(* ikm) extracts prk = HMAC(salt, ikm); expand(info, okm) fills okm with    *)
(* the first Len(okm) bytes of T(1) ++ T(2) ++ ..., where                   *)
(* T(n) = HMAC(prk, T(n-1) ++ info ++ <<n>>) and T(0) is empty: expand      *)
(* itself appends the one-byte block counter to info.                       *)
(***************************************************************************)
HMAC(key, msg) == [hmac_key |-> key, hmac_msg |-> msg]

Hkdf_new(salt, ikm) == [prk |-> HMAC(salt, ikm)]

RECURSIVE Hkdf_block(_, _, _)
Hkdf_block(h, info, blocknum) ==
  LET prev == IF blocknum > 1 THEN <<Hkdf_block(h, info, blocknum - 1)>> ELSE <<>>
  IN  HMAC(h.prk, prev \o info \o <<blocknum>>)

Hkdf_expand(h, info, okm_len) ==
  LET nblocks == (okm_len + SHA256_LEN - 1) \div SHA256_LEN
  IN  [len |-> okm_len, blocks |-> [n \in 1..nblocks |-> Hkdf_block(h, info, n)]]

compute_hkdf(ikm, salt) ==
  LET h == Hkdf_new(salt, ikm)
      info_bits_update == INFO_BITS \o <<1>>
  IN  Hkdf_expand(h, info_bits_update, OKM_LEN)

(***************************************************************************)
(* calculate_u.  BigUint::from_str_radix(s, 16) accepts one leading "+",    *)
(* rejects an empty digit string and any character that is not a digit, and *)
(* has no width: the value is the digits without leading zeros.             *)
(***************************************************************************)
RECURSIVE strip_zeros(_)
strip_zeros(nibbles) ==
  IF nibbles # <<>> /\ Head(nibbles) = 0 THEN strip_zeros(Tail(nibbles)) ELSE nibbles

BigUint_from_str_radix(s) ==
  LET digits == IF s # <<>> /\ Head(s) = "+" /\ (Len(s) = 1 \/ s[2] # "+")
                THEN Tail(s) ELSE s
  IN  IF digits = <<>> THEN Err("Empty")
      ELSE IF \E i \in 1..Len(digits) : to_digit(digits[i]) = -1 THEN Err("InvalidDigit")
      ELSE Ok(strip_zeros([i \in 1..Len(digits) |-> to_digit(digits[i])]))

\* The modulus N as a big integer.
N == BigUint_from_str_radix(N_HEX).val

\* The hex string calculate_u hashes.
u_hash_input(big_a, big_b) == pad_hex(Long(big_a)) \o pad_hex(Long(big_b))

calculate_u(big_a, big_b, digest) ==
  LET val == hex_hash(u_hash_input(big_a, big_b), digest)
  IN  IF ~val.ok THEN val ELSE BigUint_from_str_radix(val.val)

(***************************************************************************)
(* The inputs explored.                                                     *)
(***************************************************************************)
Alphabet == {"0", "1", "7", "8", "F", "a", "g", "+"}

Strings(n) == UNION {[1..k -> Alphabet] : k \in 0..n}

Fill(c, k) == [i \in 1..k |-> c]

TestStrings ==
  { <<"A","B","C","1","2","3">>, <<"a","b","c","1","2","3">>, <<"-">>, <<"-","1">> }

\* Strings for pad_hex and hex_hash.
StringInputs == Strings(MaxLen) \cup TestStrings

\* Strings for hex_to_long: short ones, and heads followed by enough digits
\* to reach and pass the width of a u128.
HexInputs ==
  StringInputs \cup
  { h \o Fill(c, k) : h \in Strings(MaxHead), c \in {"0", "F"},
                      k \in {U128_NIBBLES - 2, U128_NIBBLES - 1, U128_NIBBLES} }

NibbleSamples == {0, 1, 8}

\* 1234, 123, 456 (the values of the tests), 7, 0x7F and u128::MAX.
SpecialLongs == { <<4,13,2>>, <<7,11>>, <<1,12,8>>, <<7>>, <<7,15>>, U128_MAX }

\* u128 values: canonical nibble sequences.
Longs ==
  { n \in UNION {[1..k -> NibbleSamples] : k \in 0..MaxNibbles} : n = <<>> \/ n[1] # 0 }
  \cup SpecialLongs

ByteSamples == {0, 1, 255}

ByteStrings ==
  UNION {[1..k -> ByteSamples] : k \in 0..MaxBytes} \cup { <<1,2,3>>, <<4,5,6>> }

\* SHA-256 hex_hash("abc123") of the tests.
GoldenDigest ==
  << 107,240,252,126,166,216,132,137,93,238,157,14,28,66,53,49,
     146,76,33,35,244,151,81,72,73,170,247,53,11,55,204,158 >>

ZeroDigest == [i \in 1..SHA256_LEN |-> 0]

DigestSamples ==
  { ZeroDigest, GoldenDigest, [i \in 1..SHA256_LEN |-> IF i = 1 THEN 0 ELSE 255] }

NumBytesSamples == {-1, 0, 16, 128}

(***************************************************************************)
(* The state machine: op is the function called ("none" between calls), arg  *)
(* its arguments, res what it returned.  The functions share no state: a    *)
(* call starts from the idle state and Return hands the result back.        *)
(***************************************************************************)
Init ==
  /\ op = "none"
  /\ arg = <<>>
  /\ res = <<>>

PadHexCall(val) ==
  /\ op' = "pad_hex"
  /\ arg' = val
  /\ res' = pad_hex(val)

PadHex ==
  /\ op = "none"
  /\ \/ \E s \in StringInputs : PadHexCall(String(s))
     \/ \E n \in Longs : PadHexCall(Long(n))

HexToLong ==
  /\ op = "none"
  /\ \E hex_str \in HexInputs :
       /\ op' = "hex_to_long"
       /\ arg' = hex_str
       /\ res' = hex_to_long(hex_str)

LongToHex ==
  /\ op = "none"
  /\ \E long \in Longs :
       /\ op' = "long_to_hex"
       /\ arg' = long
       /\ res' = long_to_hex(long)

HexHash ==
  /\ op = "none"
  /\ \E hex_str \in StringInputs, digest \in DigestSamples :
       /\ op' = "hex_hash"
       /\ arg' = hex_str
       /\ res' = hex_hash(hex_str, digest)

GetRandom ==
  /\ op = "none"
  /\ \E num_bytes \in NumBytesSamples, drawn \in Longs :
       /\ op' = "get_random"
       /\ arg' = num_bytes
       /\ res' = get_random(num_bytes, drawn)

ComputeHkdf ==
  /\ op = "none"
  /\ \E ikm \in ByteStrings, salt \in ByteStrings :
       /\ op' = "compute_hkdf"
       /\ arg' = [ikm |-> ikm, salt |-> salt]
       /\ res' = compute_hkdf(ikm, salt)

CalculateU ==
  /\ op = "none"
  /\ \E big_a \in Longs, big_b \in Longs, digest \in DigestSamples :
       /\ op' = "calculate_u"
       /\ arg' = [big_a |-> big_a, big_b |-> big_b]
       /\ res' = calculate_u(big_a, big_b, digest)

Return ==
  /\ op # "none"
  /\ op' = "none"
  /\ arg' = <<>>
  /\ res' = <<>>

Next ==
  \/ PadHex
  \/ HexToLong
  \/ LongToHex
  \/ HexHash
  \/ GetRandom
  \/ ComputeHkdf
  \/ CalculateU
  \/ Return

Spec == Init /\ [][Next]_vars

(***************************************************************************)
(* Vocabulary of the properties.                                            *)
(***************************************************************************)
HexDigitChars ==
  {"0","1","2","3","4","5","6","7","8","9",
   "A","B","C","D","E","F","a","b","c","d","e","f"}

UpperHexDigitChars ==
  {"0","1","2","3","4","5","6","7","8","9","A","B","C","D","E","F"}

IsHexString(s) == \A i \in 1..Len(s) : s[i] \in HexDigitChars

\* The padding rule in two steps: fix an odd length, then look at the first
\* digit of the corrected string.
TwoStepPad(v) ==
  LET step1 == IF Len(v) % 2 = 1 THEN <<"0">> \o v ELSE v
  IN  IF step1 # <<>> /\ Head(step1) \in
           {"8","9","A","B","C","D","E","F","a","b","c","d","e","f"}
      THEN <<"0","0">> \o step1
      ELSE step1

\* The unsigned integer a string of hex digits denotes.
Denotes(s) == strip_zeros([i \in 1..Len(s) |-> to_digit(s[i])])

\* a < b, for canonical nibble sequences.
LessThan(a, b) ==
  \/ Len(a) < Len(b)
  \/ /\ Len(a) = Len(b)
     /\ \E i \in 1..Len(a) : a[i] < b[i] /\ \A j \in 1..(i - 1) : a[j] = b[j]

\* x and y are both repetitions of one block.
CommonBlock(x, y) ==
  \E k \in 1..Len(x) :
    /\ Len(x) % k = 0
    /\ Len(y) % k = 0
    /\ \A i \in 1..Len(x) : x[i] = x[((i - 1) % k) + 1]
    /\ \A i \in 1..Len(y) : y[i] = x[((i - 1) % k) + 1]

\* A padded integer: nonempty, of even length, hex digits, first digit 0-7.
WellPadded(p) ==
  /\ p # <<>>
  /\ Len(p) % 2 = 0
  /\ IsHexString(p)
  /\ p[1] \in {"0","1","2","3","4","5","6","7"}

(***************************************************************************)
(* C1: pad_hex returns what the two-step rule returns (prefix "0" to an     *)
(* odd-length string, then prefix "00" if the first character of the        *)
(* corrected string is one of 8-9, A-F, a-f), for strings and for integers  *)
(* taken as their unpadded uppercase hex; with the values of the tests.     *)
(***************************************************************************)
C1_PadHexTwoStep ==
  op = "pad_hex" =>
    /\ arg.tag = "String" => res = TwoStepPad(arg.val)
    /\ arg.tag = "Long" => res = TwoStepPad(long_to_hex(arg.val))
    /\ (arg.tag = "String" /\ arg.val = <<>>) => res = <<>>
    /\ (arg.tag = "String" /\ arg.val = <<"8","F">>) => res = <<"0","0","8","F">>
    /\ (arg.tag = "String" /\ arg.val = <<"8","F","1">>) => res = <<"0","8","F","1">>
    /\ (arg.tag = "String" /\ arg.val = <<"7","7">>) => res = <<"7","7">>
    /\ (arg.tag = "Long" /\ arg.val = <<4,13,2>>) => res = <<"0","4","D","2">>

C1_Witness ==
  /\ op = "pad_hex"
  /\ arg.tag = "String"
  /\ arg.val = <<"a","8">>
  /\ res = <<"0","0","a","8">>

(***************************************************************************)
(* C2: pad_hex is idempotent: padding the result of pad_hex again, as a     *)
(* string, leaves it unchanged (string and integer inputs).                 *)
(***************************************************************************)
C2_PadHexIdempotent == op = "pad_hex" => pad_hex(String(res)) = res

C2_Witness ==
  /\ op = "pad_hex"
  /\ arg.tag = "String"
  /\ arg.val = <<"8","F">>
  /\ res = <<"0","0","8","F">>
  /\ pad_hex(String(res)) = res

(***************************************************************************)
(* C3 as stated: for every nonempty hex string s of even length that        *)
(* hex_to_long accepts, long_to_hex(hex_to_long(s)) = s.                    *)
(***************************************************************************)
C3_RoundTripAnyHex ==
  (/\ op = "hex_to_long"
   /\ arg # <<>>
   /\ Len(arg) % 2 = 0
   /\ IsHexString(arg)
   /\ res.ok)
  => long_to_hex(res.val) = arg

(***************************************************************************)
(* C3 amended: for every nonempty even-length string s of uppercase hex     *)
(* digits whose first digit is not 0 and that hex_to_long accepts,          *)
(* long_to_hex(hex_to_long(s)) = s.                                         *)
(***************************************************************************)
C3_RoundTripCanonical ==
  (/\ op = "hex_to_long"
   /\ arg # <<>>
   /\ Len(arg) % 2 = 0
   /\ \A i \in 1..Len(arg) : arg[i] \in UpperHexDigitChars
   /\ arg[1] # "0"
   /\ res.ok)
  => long_to_hex(res.val) = arg

C3_Witness ==
  /\ op = "hex_to_long"
  /\ arg = <<"A","B","C","1","2","3">>
  /\ res.ok
  /\ long_to_hex(res.val) = arg

(***************************************************************************)
(* C4: hex_to_long returns an error for every string that holds a character *)
(* that is not a hex digit, wherever it stands.                             *)
(***************************************************************************)
C4_NonHexRejected ==
  (op = "hex_to_long" /\ ~IsHexString(arg)) => ~res.ok

(***************************************************************************)
(* C5: hex_to_long parses every nonempty string of hex digits, of any       *)
(* length, to the unsigned integer it denotes: Ok with the exact value.     *)
(***************************************************************************)
C5_ParsesAnyLength ==
  (op = "hex_to_long" /\ arg # <<>> /\ IsHexString(arg))
  => (res.ok /\ res.val = Denotes(arg))

(***************************************************************************)
(* C6: calculate_u never returns Ok(0).                                     *)
(***************************************************************************)
C6_UNeverZero == op = "calculate_u" => ~(res.ok /\ res.val = <<>>)

(***************************************************************************)
(* C7: get_random returns r with 1 <= r < N, never 0.                       *)
(***************************************************************************)
C7_RandomInRange == op = "get_random" => (res # <<>> /\ LessThan(res, N))

(***************************************************************************)
(* C8: compute_hkdf extracts with salt over ikm, then authenticates exactly *)
(* one expand block whose input is INFO_BITS followed by the single counter *)
(* byte 1 and nothing else, and returns its first 16 bytes.                 *)
(***************************************************************************)
C8_HkdfInfoThenCounter ==
  op = "compute_hkdf" =>
    /\ res.len = 16
    /\ Len(res.blocks) = 1
    /\ res.blocks[1].hmac_key = HMAC(arg.salt, arg.ikm)
    /\ res.blocks[1].hmac_msg = INFO_BITS \o <<1>>

(***************************************************************************)
(* C9 as stated: for all A # B, the string calculate_u(A, B) hashes differs *)
(* from the one calculate_u(B, A) hashes.                                   *)
(***************************************************************************)
C9_OrderAlwaysMatters ==
  (op = "calculate_u" /\ arg.big_a # arg.big_b)
  => u_hash_input(arg.big_a, arg.big_b) # u_hash_input(arg.big_b, arg.big_a)

(***************************************************************************)
(* C9 amended: for all A # B, the string calculate_u(A, B) hashes differs   *)
(* from the one calculate_u(B, A) hashes, unless pad_hex(A) and pad_hex(B)  *)
(* have different lengths and are both repetitions of one block.            *)
(***************************************************************************)
C9_OrderMattersUnlessRepetition ==
  (/\ op = "calculate_u"
   /\ arg.big_a # arg.big_b
   /\ u_hash_input(arg.big_a, arg.big_b) = u_hash_input(arg.big_b, arg.big_a))
  => /\ Len(pad_hex(Long(arg.big_a))) # Len(pad_hex(Long(arg.big_b)))
     /\ CommonBlock(pad_hex(Long(arg.big_a)), pad_hex(Long(arg.big_b)))

C9_Witness ==
  /\ op = "calculate_u"
  /\ arg.big_a = <<7,11>>
  /\ arg.big_b = <<1,12,8>>
  /\ res.ok
  /\ u_hash_input(arg.big_a, arg.big_b) # u_hash_input(arg.big_b, arg.big_a)

(***************************************************************************)
(* C10: calculate_u never fails on a format error: both padded integers are *)
(* nonempty, of even length, made of hex digits and start with 0-7, their   *)
(* concatenation decodes, and calculate_u returns Ok.                       *)
(***************************************************************************)
C10_CalculateUAlwaysOk ==
  op = "calculate_u" =>
    /\ WellPadded(pad_hex(Long(arg.big_a)))
    /\ WellPadded(pad_hex(Long(arg.big_b)))
    /\ Len(u_hash_input(arg.big_a, arg.big_b)) % 2 = 0
    /\ decode(u_hash_input(arg.big_a, arg.big_b)).ok
    /\ res.ok

C10_Witness ==
  /\ op = "calculate_u"
  /\ arg.big_a = U128_MAX
  /\ arg.big_b = <<1>>
  /\ u_hash_input(arg.big_a, arg.big_b) = <<"0","0">> \o Fill("F", 32) \o <<"0","1">>
  /\ res.ok
====
